---------------------------- MODULE Spec2Model ----------------------------
(***************************************************************************)
(* A model of the Minesweeper engine of src/扫雷.py: the GameBoard object   *)
(* (grid of Cell records, game_over, first_click, remaining_mines) and the *)
(* two click handlers of the Minesweeper application that drive it.        *)
(*                                                                         *)
(* The window, the buttons, the timer and the dialogs are presentation     *)
(* only: they read the board and never write it, so they are not modelled. *)
(*                                                                         *)
(* The source fixes ROWS = 9, COLS = 9, MINES = 10; GameBoard itself takes *)
(* rows, cols and mines as parameters.  The model keeps the three as       *)
(* variables that are chosen once and never change, so that the same       *)
(* handlers are checked on every board up to MaxRows x MaxCols.            *)
(***************************************************************************)
EXTENDS Integers, Sequences, FiniteSets, TLC

\* ------------------------------------------------------------------ bounds
MaxRows == 3
MaxCols == 5
\* the largest board has MaxCells cells
MaxCells == 10
MaxMines == 2
\* remaining_mines may go down without limit in the source; the model stops
\* flagging once MaxFlags cells carry a flag.
MaxFlags == 2
\* a board that is driven directly has at most UnitCells cells, and at most
\* UnitMarked of them start FLAGGED or REVEALED
UnitCells == 9
UnitMarked == 1
\* a board on which reveal_cell is run statement by statement has at most
\* RunCells cells
RunCells == 9
\* a board that is called with coordinates outside its grid has at most
\* CallCells cells
CallCells == 4

\* --------------------------------------------------------------- constants
HIDDEN == 0
REVEALED == 1
FLAGGED == 2

VARIABLES
    ROWS,          \* module constant ROWS (fixed for a run)
    COLS,          \* module constant COLS
    MINES,         \* module constant MINES
    game_board,    \* Minesweeper.game_board: the current GameBoard object
    last,          \* the last handler call and what it reported
    pc,            \* "game", or where a directly driven GameBoard stands
    call,          \* the reveal_cell call under way: its board and its cell
    frames         \* the open activations of reveal_cell, innermost last

vars == <<ROWS, COLS, MINES, game_board, last, pc, call, frames>>

\* ------------------------------------------------------------ Cell, board

\* Cell.__init__
Cell(row, col) ==
    [row |-> row, col |-> col, is_mine |-> FALSE, state |-> HIDDEN,
     neighbor_mines |-> 0]

\* range(rows) x range(cols)
Positions(rows, cols) == (0 .. rows - 1) \X (0 .. cols - 1)

\* GameBoard.__init__
GameBoard(rows, cols, mines) ==
    [rows |-> rows, cols |-> cols, mines |-> mines,
     grid |-> [p \in Positions(rows, cols) |-> Cell(p[1], p[2])],
     game_over |-> FALSE,
     first_click |-> TRUE,
     remaining_mines |-> mines]

\* 0 <= r < self.rows and 0 <= c < self.cols
InBounds(b, r, c) == 0 <= r /\ r < b.rows /\ 0 <= c /\ c < b.cols

\* for dr in [-1, 0, 1]: for dc in [-1, 0, 1]: skipping dr == 0 and dc == 0,
\* in the order the two loops produce
Offsets ==
    << <<-1, -1>>, <<-1, 0>>, <<-1, 1>>,
       <<0, -1>>,             <<0, 1>>,
       <<1, -1>>,  <<1, 0>>,  <<1, 1>> >>

\* the in-bounds cells the neighbour loops reach from (r, c)
Neighbors(b, r, c) ==
    { <<r + Offsets[i][1], c + Offsets[i][2]>> : i \in 1 .. Len(Offsets) }
        \cap DOMAIN b.grid

\* --------------------------------------------------------- mine placement

\* safe_zone with the four diagonal neighbours left out
safe_zone_Orthogonal(b, first_click_row, first_click_col) ==
    { <<first_click_row + dr, first_click_col + dc>> :
          dr \in {-1, 0, 1}, dc \in {-1, 0, 1} }
        \cap { p \in Positions(b.rows, b.cols) :
                 p[1] = first_click_row \/ p[2] = first_click_col }

\* place_mines: safe_zone
safe_zone(b, first_click_row, first_click_col) ==
    { <<first_click_row + dr, first_click_col + dc>> :
          dr \in {-1, 0, 1}, dc \in {-1, 0, 1} } \cap Positions(b.rows, b.cols)

\* place_mines: available_cells = list(set(all_cells) - safe_zone)
available_cells(b, first_click_row, first_click_col) ==
    Positions(b.rows, b.cols) \ safe_zone(b, first_click_row, first_click_col)

RECURSIVE Combinations(_, _)

\* the subsets of S that have k elements
Combinations(S, k) ==
    IF k = 0 THEN {{}}
    ELSE IF k > Cardinality(S) THEN {}
    ELSE LET x == CHOOSE y \in S : TRUE
         IN  { T \cup {x} : T \in Combinations(S \ {x}, k - 1) }
                 \cup Combinations(S \ {x}, k)

\* a sample drawn with replacement: a position may come out twice, which
\* leaves one element fewer
random_sample_Repeating(population, k) ==
    IF k < 0 \/ k > Cardinality(population)
    THEN {}
    ELSE Combinations(population, k)
             \cup (IF k > 1 THEN Combinations(population, k - 1) ELSE {})

\* random.sample(population, k): k distinct elements, every choice possible
\* (their order plays no role in place_mines); it raises ValueError, and so
\* has no outcome, when k is negative or larger than the population.
random_sample(population, k) ==
    IF k < 0 \/ k > Cardinality(population)
    THEN {}
    ELSE Combinations(population, k)

\* the count loop looking only at the row of the cell and the row above
CountMines_NoRowBelow(b, r, c) ==
    Cardinality({ p \in Neighbors(b, r, c) : p[1] <= r /\ b.grid[p].is_mine })

\* the count loop without the diagonals (dr == 0 or dc == 0 only)
CountMines_NoDiagonal(b, r, c) ==
    Cardinality({ p \in Neighbors(b, r, c) :
                    (p[1] = r \/ p[2] = c) /\ b.grid[p].is_mine })

\* the count loop of calculate_neighbor_mines for one cell
CountMines(b, r, c) ==
    Cardinality({ p \in Neighbors(b, r, c) : b.grid[p].is_mine })

\* GameBoard.calculate_neighbor_mines
calculate_neighbor_mines(b) ==
    [b EXCEPT !.grid =
        [p \in DOMAIN b.grid |->
            IF ~b.grid[p].is_mine
            THEN [b.grid[p] EXCEPT !.neighbor_mines = CountMines(b, p[1], p[2])]
            ELSE b.grid[p]]]

\* GameBoard.place_mines, with the outcome of random.sample as a parameter
place_mines(b, mine_positions) ==
    calculate_neighbor_mines(
        [b EXCEPT !.grid =
            [p \in DOMAIN b.grid |->
                IF p \in mine_positions
                THEN [b.grid[p] EXCEPT !.is_mine = TRUE]
                ELSE b.grid[p]]])

\* ----------------------------------------------------------------- reveal

\* reveal_cell whose guard lets a FLAGGED cell through (state == REVEALED in
\* place of state != HIDDEN)
reveal_mark_ThroughFlag(b, row, col) ==
    LET cell == b.grid[<<row, col>>]
    IN  IF cell.state = REVEALED
        THEN b
        ELSE IF cell.is_mine
        THEN [b EXCEPT !.grid[<<row, col>>].state = REVEALED, !.game_over = TRUE]
        ELSE [b EXCEPT !.grid[<<row, col>>].state = REVEALED]

\* reveal_cell that assigns game_over = cell.is_mine, where the source sets
\* it on a mine only
reveal_mark_AssignOver(b, row, col) ==
    LET cell == b.grid[<<row, col>>]
    IN  IF cell.state # HIDDEN
        THEN b
        ELSE [b EXCEPT !.grid[<<row, col>>].state = REVEALED,
                       !.game_over = cell.is_mine]

\* reveal_cell without line 110: the cell is never marked REVEALED
reveal_mark_NoMark(b, row, col) ==
    LET cell == b.grid[<<row, col>>]
    IN  IF cell.state # HIDDEN
        THEN b
        ELSE IF cell.is_mine
        THEN [b EXCEPT !.game_over = TRUE]
        ELSE b

\* reveal_cell, lines 105-114, for one call: the board once the call has marked
\* its cell (a call on a cell that is not HIDDEN returns at line 108)
reveal_mark(b, row, col) ==
    LET cell == b.grid[<<row, col>>]
    IN  IF cell.state # HIDDEN
        THEN b
        ELSE IF cell.is_mine
        THEN [b EXCEPT !.grid[<<row, col>>].state = REVEALED, !.game_over = TRUE]
        ELSE [b EXCEPT !.grid[<<row, col>>].state = REVEALED]

\* reveal_cell without the return of line 114: a mine, whose neighbor_mines
\* stays 0, goes on into the neighbour loop
reveal_cascades_OnMine(b, row, col) ==
    LET cell == b.grid[<<row, col>>]
    IN  cell.state = HIDDEN /\ cell.neighbor_mines = 0

\* reveal_cell without the test of line 116: every cell that is no mine goes
\* on into the neighbour loop
reveal_cascades_Always(b, row, col) ==
    LET cell == b.grid[<<row, col>>]
    IN  cell.state = HIDDEN /\ ~cell.is_mine

\* reveal_cell, lines 107-116: the call reaches the neighbour loop
reveal_cascades(b, row, col) ==
    LET cell == b.grid[<<row, col>>]
    IN  cell.state = HIDDEN /\ ~cell.is_mine /\ cell.neighbor_mines = 0

\* the neighbour loop with dr running over [-1, 0] only
reveal_loop_NoRowBelow(b, row, col) ==
    SelectSeq([i \in 1 .. 5 |->
                  <<row + Offsets[i][1], col + Offsets[i][2]>>],
              LAMBDA p : InBounds(b, p[1], p[2]))

\* reveal_cell, lines 117-123: the calls the neighbour loop of (row, col) makes,
\* in the order it makes them
reveal_loop(b, row, col) ==
    SelectSeq([i \in 1 .. Len(Offsets) |->
                  <<row + Offsets[i][1], col + Offsets[i][2]>>],
              LAMBDA p : InBounds(b, p[1], p[2]))

RECURSIVE reveal_calls(_, _)

\* The recursion of reveal_cell, run to its end.  calls lists the calls of
\* reveal_cell still to be made, in the order the interpreter makes them: the
\* first one is made now, and the calls of its own neighbour loop come before
\* the rest of the loops that are still open.  The value a nested call
\* returns is dropped, as in the source.
reveal_calls(b, calls) ==
    IF calls = <<>>
    THEN b
    ELSE reveal_calls(
             reveal_mark(b, Head(calls)[1], Head(calls)[2]),
             IF reveal_cascades(b, Head(calls)[1], Head(calls)[2])
             THEN reveal_loop(b, Head(calls)[1], Head(calls)[2]) \o Tail(calls)
             ELSE Tail(calls))

\* reveal_cell without its neighbour loop
reveal_cell_NoCascade(b, row, col) ==
    [board |-> reveal_mark(b, row, col),
     ret |-> b.grid[<<row, col>>].state = HIDDEN /\ b.grid[<<row, col>>].is_mine]

\* GameBoard.reveal_cell: the board after the call and the value returned
reveal_cell(b, row, col) ==
    [board |-> reveal_calls(b, << <<row, col>> >>),
     ret |-> b.grid[<<row, col>>].state = HIDDEN /\ b.grid[<<row, col>>].is_mine]

\* ------------------------------------------------------------------- flag

\* toggle_flag that takes the flag off without giving the count back
toggle_flag_NoRestore(b, row, col) ==
    LET cell == b.grid[<<row, col>>]
    IN  IF cell.state = HIDDEN
        THEN [b EXCEPT !.grid[<<row, col>>].state = FLAGGED,
                       !.remaining_mines = @ - 1]
        ELSE IF cell.state = FLAGGED
        THEN [b EXCEPT !.grid[<<row, col>>].state = HIDDEN]
        ELSE b

\* toggle_flag that leaves remaining_mines alone
toggle_flag_NoCount(b, row, col) ==
    LET cell == b.grid[<<row, col>>]
    IN  IF cell.state = HIDDEN
        THEN [b EXCEPT !.grid[<<row, col>>].state = FLAGGED]
        ELSE IF cell.state = FLAGGED
        THEN [b EXCEPT !.grid[<<row, col>>].state = HIDDEN]
        ELSE b

\* GameBoard.toggle_flag
toggle_flag(b, row, col) ==
    LET cell == b.grid[<<row, col>>]
    IN  IF cell.state = HIDDEN
        THEN [b EXCEPT !.grid[<<row, col>>].state = FLAGGED,
                       !.remaining_mines = @ - 1]
        ELSE IF cell.state = FLAGGED
        THEN [b EXCEPT !.grid[<<row, col>>].state = HIDDEN,
                       !.remaining_mines = @ + 1]
        ELSE b

\* -------------------------------------------------------------- check_win

RECURSIVE check_win_scan(_, _)

\* the two loops of check_win from the i-th cell in row-major order on:
\* FALSE at the first cell that is no mine and not revealed
check_win_scan(b, i) ==
    IF i >= b.rows * b.cols
    THEN TRUE
    ELSE LET cell == b.grid[<<i \div b.cols, i % b.cols>>]
         IN  IF ~cell.is_mine /\ cell.state # REVEALED
             THEN FALSE
             ELSE check_win_scan(b, i + 1)

\* check_win that returns True without setting game_over
check_win_NoGameOver(b) ==
    IF check_win_scan(b, 0)
    THEN [board |-> b, ret |-> TRUE]
    ELSE [board |-> b, ret |-> FALSE]

\* GameBoard.check_win: the board after the call and the value returned
check_win(b) ==
    IF check_win_scan(b, 0)
    THEN [board |-> [b EXCEPT !.game_over = TRUE], ret |-> TRUE]
    ELSE [board |-> b, ret |-> FALSE]

\* --------------------------------------------------------------- handlers

\* left_click without line 227: first_click is never cleared, and every left
\* click places mines
left_click_place_KeepFirst(b, mine_positions) ==
    IF b.first_click
    THEN place_mines(b, mine_positions)
    ELSE b

\* Minesweeper.left_click, lines 226-229: the board on which reveal_cell is
\* called (start_timer touches no board state)
left_click_place(b, mine_positions) ==
    IF b.first_click
    THEN place_mines([b EXCEPT !.first_click = FALSE], mine_positions)
    ELSE b

\* Minesweeper.left_click, with the outcome of random.sample as a parameter.
\* outcome: "returned" (the game_over guard), "lost" (end_game(False)),
\* "won" (end_game(True)), "continued" (neither).
left_click(b, row, col, mine_positions) ==
    IF b.game_over
    THEN [board |-> b, outcome |-> "returned"]
    ELSE LET rv == reveal_cell(left_click_place(b, mine_positions), row, col)
             cw == check_win(rv.board)
         IN  IF rv.ret
             THEN [board |-> rv.board, outcome |-> "lost"]
             ELSE IF cw.ret
             THEN [board |-> cw.board, outcome |-> "won"]
             ELSE [board |-> cw.board, outcome |-> "continued"]

\* what random.sample may hand to a left click at (row, col): consulted only
\* on the first click of a game
MinePicks(b, row, col) ==
    IF ~b.game_over /\ b.first_click
    THEN random_sample(available_cells(b, row, col), b.mines)
    ELSE {{}}

\* right_click whose guard forgets game_over
right_click_NoOverGuard(b, row, col) ==
    IF b.first_click
    THEN [board |-> b, outcome |-> "returned"]
    ELSE [board |-> toggle_flag(b, row, col), outcome |-> "toggled"]

\* right_click whose guard forgets first_click
right_click_NoFirstGuard(b, row, col) ==
    IF b.game_over
    THEN [board |-> b, outcome |-> "returned"]
    ELSE [board |-> toggle_flag(b, row, col), outcome |-> "toggled"]

\* Minesweeper.right_click.  outcome: "returned" (the guard) or "toggled".
right_click(b, row, col) ==
    IF b.game_over \/ b.first_click
    THEN [board |-> b, outcome |-> "returned"]
    ELSE [board |-> toggle_flag(b, row, col), outcome |-> "toggled"]

\* ------------------------------------------------------------------ state

FlaggedCells(b) == { p \in DOMAIN b.grid : b.grid[p].state = FLAGGED }
RevealedCells(b) == { p \in DOMAIN b.grid : b.grid[p].state = REVEALED }
HiddenCells(b) == { p \in DOMAIN b.grid : b.grid[p].state = HIDDEN }
MineCells(b) == { p \in DOMAIN b.grid : b.grid[p].is_mine }

\* no reveal_cell call is being followed
NoCall == [board |-> <<>>, row |-> 0, col |-> 0]

\* random.sample in place_mines cannot raise, whichever cell is clicked first
PlayableConfig(rows, cols, mines) ==
    \A p \in Positions(rows, cols) :
        random_sample(available_cells(GameBoard(rows, cols, mines), p[1], p[2]),
                      mines) # {}

\* Minesweeper.__init__: GameBoard(ROWS, COLS, MINES), then new_game().  Like
\* the 9 x 9 board with 10 mines of the source, the boards of Spec leave
\* random.sample enough cells outside every safe zone.
Init ==
    /\ ROWS \in 1 .. MaxRows
    /\ COLS \in 1 .. MaxCols
    /\ ROWS * COLS <= MaxCells
    /\ MINES \in 0 .. MaxMines
    /\ PlayableConfig(ROWS, COLS, MINES)
    /\ game_board = GameBoard(ROWS, COLS, MINES)
    /\ last = [op |-> "new_game", target |-> HIDDEN, first |-> FALSE,
               outcome |-> "none"]
    /\ pc = "game"
    /\ call = NoCall
    /\ frames = <<>>

\* what new_game discards: where the game on board b stands (a lost game
\* shows a mine, a won one does not)
Discarded(b) ==
    IF b.first_click THEN "discarded_not_started"
    ELSE IF ~b.game_over THEN "discarded_in_progress"
    ELSE IF \E p \in DOMAIN b.grid : b.grid[p].is_mine /\ b.grid[p].state = REVEALED
    THEN "discarded_lost"
    ELSE "discarded_won"

\* new_game that keeps the GameBoard object and resets its three fields only
NewGame_KeepGrid ==
    /\ game_board' = [game_board EXCEPT !.game_over = FALSE,
                                        !.first_click = TRUE,
                                        !.remaining_mines = MINES]
    /\ last' = [op |-> "new_game", target |-> HIDDEN, first |-> FALSE,
                outcome |-> Discarded(game_board)]
    /\ UNCHANGED <<ROWS, COLS, MINES, pc, call, frames>>

\* Minesweeper.new_game (the "新游戏" button)
NewGame ==
    /\ game_board' = GameBoard(ROWS, COLS, MINES)
    /\ last' = [op |-> "new_game", target |-> HIDDEN, first |-> FALSE,
                outcome |-> Discarded(game_board)]
    /\ UNCHANGED <<ROWS, COLS, MINES, pc, call, frames>>

\* <Button-1> on the button of cell (row, col)
LeftClick(row, col) ==
    /\ <<row, col>> \in DOMAIN game_board.grid
    /\ IF MinePicks(game_board, row, col) = {}
       THEN \* random.sample raises: the handler ends after line 227
            /\ game_board' = [game_board EXCEPT !.first_click = FALSE]
            /\ last' = [op |-> "left_click",
                        target |-> game_board.grid[<<row, col>>].state,
                        first |-> TRUE, outcome |-> "raised"]
       ELSE \E mine_positions \in MinePicks(game_board, row, col) :
                LET res == left_click(game_board, row, col, mine_positions)
                IN  /\ game_board' = res.board
                    /\ last' = [op |-> "left_click",
                                target |-> game_board.grid[<<row, col>>].state,
                                first |-> game_board.first_click,
                                outcome |-> res.outcome]
    /\ UNCHANGED <<ROWS, COLS, MINES, pc, call, frames>>

\* <Button-3> on the button of cell (row, col)
RightClick(row, col) ==
    /\ <<row, col>> \in DOMAIN game_board.grid
    /\ \/ game_board.game_over
       \/ game_board.first_click
       \/ game_board.grid[<<row, col>>].state # HIDDEN
       \/ Cardinality(FlaggedCells(game_board)) < MaxFlags
    /\ LET res == right_click(game_board, row, col)
       IN  /\ game_board' = res.board
           /\ last' = [op |-> "right_click",
                       target |-> game_board.grid[<<row, col>>].state,
                       first |-> game_board.first_click,
                       outcome |-> res.outcome]
    /\ UNCHANGED <<ROWS, COLS, MINES, pc, call, frames>>

Next ==
    \/ NewGame
    \/ \E row \in 0 .. MaxRows - 1, col \in 0 .. MaxCols - 1 : LeftClick(row, col)
    \/ \E row \in 0 .. MaxRows - 1, col \in 0 .. MaxCols - 1 : RightClick(row, col)

Spec == Init /\ [][Next]_vars

\* ------------------------------------------- GameBoard on any configuration
(***************************************************************************)
(* GameBoard.__init__ stores rows, cols and mines as they come: it tests    *)
(* nothing.  SpecConfig runs the same application on every rows, cols and  *)
(* mines GameBoard can be built with (range() of a number below 1 is       *)
(* empty, so the grid of such a board has no cell and no button).          *)
(***************************************************************************)

\* Minesweeper.__init__ with ROWS, COLS and MINES set to any numbers
ConfigInit ==
    /\ ROWS \in 0 .. MaxRows
    /\ COLS \in 0 .. MaxCols
    /\ ROWS * COLS <= MaxCells
    /\ MINES \in -1 .. MaxMines
    /\ game_board = GameBoard(ROWS, COLS, MINES)
    /\ last = [op |-> "new_game", target |-> HIDDEN, first |-> FALSE,
               outcome |-> "none"]
    /\ pc = "game"
    /\ call = NoCall
    /\ frames = <<>>

SpecConfig == ConfigInit /\ [][Next]_vars

\* ------------------------------------- GameBoard called with any coordinates
(***************************************************************************)
(* reveal_cell and toggle_flag begin with cell = self.grid[row][col] and   *)
(* test neither row nor col.  The handlers pass the coordinates of a       *)
(* button; SpecCall adds a caller that passes coordinates outside the      *)
(* grid, which the subscript of a Python list treats in its own way.       *)
(***************************************************************************)

\* a[i] on a Python list of n elements: the position read, or -1 when the
\* subscript raises IndexError (a negative i counts from the end)
list_index(n, i) ==
    IF 0 <= i /\ i < n THEN i
    ELSE IF -n <= i /\ i < 0 THEN i + n
    ELSE -1

\* self.grid[row][col]: the position of the cell that is read, or <<>> when
\* one of the two subscripts raises IndexError
grid_index(b, row, col) ==
    IF list_index(b.rows, row) = -1 \/ list_index(b.cols, col) = -1
    THEN <<>>
    ELSE <<list_index(b.rows, row), list_index(b.cols, col)>>

\* GameBoard.reveal_cell called with any integers: line 105 reads the cell,
\* lines 107-116 work on that cell, and the neighbour loop of lines 117-123
\* works from row and col as they were passed.  For a cell of the grid this
\* is reveal_cell.
reveal_cell_call(b, row, col) ==
    LET p == grid_index(b, row, col)
    IN  IF p = <<>>
        THEN [board |-> b, ret |-> FALSE, raised |-> TRUE]
        ELSE [board |-> reveal_calls(
                            reveal_mark(b, p[1], p[2]),
                            IF reveal_cascades(b, p[1], p[2])
                            THEN reveal_loop(b, row, col)
                            ELSE <<>>),
              ret |-> b.grid[p].state = HIDDEN /\ b.grid[p].is_mine,
              raised |-> FALSE]

\* GameBoard.toggle_flag called with any integers
toggle_flag_call(b, row, col) ==
    LET p == grid_index(b, row, col)
    IN  IF p = <<>>
        THEN [board |-> b, raised |-> TRUE]
        ELSE [board |-> toggle_flag(b, p[1], p[2]), raised |-> FALSE]

\* the coordinates the caller passes: up to one step beyond the subscripts
\* that Python accepts, on either side
CallRows == -(MaxRows + 1) .. MaxRows
CallCols == -(MaxCols + 1) .. MaxCols

\* Minesweeper.__init__ on the boards of SpecCall, of at most CallCells cells
CallInit ==
    /\ Init
    /\ ROWS * COLS <= CallCells

\* game_board.reveal_cell(row, col) with (row, col) outside the grid
CallReveal(row, col) ==
    /\ ~InBounds(game_board, row, col)
    /\ row \in -(ROWS + 1) .. ROWS
    /\ col \in -(COLS + 1) .. COLS
    /\ LET res == reveal_cell_call(game_board, row, col)
       IN  /\ game_board' = res.board
           /\ last' = [op |-> "reveal_cell",
                       target |-> IF res.raised THEN HIDDEN
                                  ELSE game_board.grid[
                                           grid_index(game_board, row, col)].state,
                       first |-> game_board.first_click,
                       outcome |-> IF res.raised THEN "IndexError"
                                   ELSE "returned"]
    /\ UNCHANGED <<ROWS, COLS, MINES, pc, call, frames>>

\* game_board.toggle_flag(row, col) with (row, col) outside the grid
CallToggle(row, col) ==
    /\ ~InBounds(game_board, row, col)
    /\ row \in -(ROWS + 1) .. ROWS
    /\ col \in -(COLS + 1) .. COLS
    /\ IF grid_index(game_board, row, col) = <<>>
       THEN TRUE
       ELSE \/ game_board.grid[grid_index(game_board, row, col)].state # HIDDEN
            \/ Cardinality(FlaggedCells(game_board)) < MaxFlags
    /\ LET res == toggle_flag_call(game_board, row, col)
       IN  /\ game_board' = res.board
           /\ last' = [op |-> "toggle_flag",
                       target |-> IF res.raised THEN HIDDEN
                                  ELSE game_board.grid[
                                           grid_index(game_board, row, col)].state,
                       first |-> game_board.first_click,
                       outcome |-> IF res.raised THEN "IndexError"
                                   ELSE "returned"]
    /\ UNCHANGED <<ROWS, COLS, MINES, pc, call, frames>>

CallNext ==
    \/ Next
    \/ \E row \in CallRows, col \in CallCols : CallReveal(row, col)
    \/ \E row \in CallRows, col \in CallCols : CallToggle(row, col)

SpecCall == CallInit /\ [][CallNext]_vars

\* ---------------------------------------------- a GameBoard driven directly
(***************************************************************************)
(* SpecUnit drives one GameBoard the way a unit test does: on a forced     *)
(* layout (any cells may be mines) and forced cell states (any cells may   *)
(* be FLAGGED or REVEALED), it runs calculate_neighbor_mines and then one  *)
(* reveal_cell call.  The call is followed activation by activation, and   *)
(* each neighbour loop may take its neighbours in any order.               *)
(***************************************************************************)

\* a board with the cells of mine_cells made mines and the cells of marked
\* given the state marked[p], as after line 76 of place_mines
ForcedBoard(rows, cols, mine_cells, marked) ==
    [GameBoard(rows, cols, Cardinality(mine_cells)) EXCEPT
        !.first_click = FALSE,
        !.grid = [p \in Positions(rows, cols) |->
                    [Cell(p[1], p[2]) EXCEPT
                        !.is_mine = (p \in mine_cells),
                        !.state = IF p \in DOMAIN marked THEN marked[p]
                                  ELSE HIDDEN]]]

\* the assignments of FLAGGED or REVEALED to at most n of the cells
Markings(cells, n) ==
    UNION { [M -> {FLAGGED, REVEALED}] :
                M \in { T \in SUBSET cells : Cardinality(T) <= n } }

UnitInit ==
    /\ ROWS \in 1 .. MaxRows
    /\ COLS \in 1 .. MaxCols
    /\ ROWS * COLS <= UnitCells
    /\ \E mine_cells \in { T \in SUBSET Positions(ROWS, COLS) :
                                Cardinality(T) <= MaxMines } :
       \E marked \in Markings(Positions(ROWS, COLS), UnitMarked) :
          /\ MINES = Cardinality(mine_cells)
          /\ game_board = ForcedBoard(ROWS, COLS, mine_cells, marked)
    /\ last = [op |-> "none", target |-> HIDDEN, first |-> FALSE,
               outcome |-> "none"]
    /\ pc = "placed"
    /\ call = NoCall
    /\ frames = <<>>

\* place_mines, line 78: self.calculate_neighbor_mines()
UnitCalculate ==
    /\ pc = "placed"
    /\ game_board' = calculate_neighbor_mines(game_board)
    /\ pc' = "counted"
    /\ UNCHANGED <<ROWS, COLS, MINES, last, call, frames>>

\* one call reveal_cell(row, col) made with the activations fr open: the cell
\* is marked, and the call stays open when it reaches the neighbour loop
unit_enter(b, fr, row, col) ==
    [board |-> reveal_mark(b, row, col),
     frames |-> IF reveal_cascades(b, row, col)
                THEN Append(fr, <<row, col>>)
                ELSE fr]

\* What is left of the neighbour loop of an open activation at (row, col).  A
\* call on a neighbour that is not HIDDEN returns at line 108 and changes
\* nothing, and a neighbour the loop has called is HIDDEN no more; so the
\* calls of the loop that still do something are those on its HIDDEN
\* neighbours, and the loop is over in effect when none is left.
unit_todo(b, row, col) ==
    { n \in Neighbors(b, row, col) : b.grid[n].state = HIDDEN }

\* the test calls board.reveal_cell(row, col)
UnitReveal(row, col) ==
    /\ pc = "counted"
    /\ <<row, col>> \in DOMAIN game_board.grid
    /\ call' = [board |-> game_board, row |-> row, col |-> col]
    /\ LET e == unit_enter(game_board, <<>>, row, col)
       IN  /\ game_board' = e.board
           /\ frames' = e.frames
           /\ pc' = IF e.frames = <<>> THEN "returned" ELSE "revealing"
    /\ UNCHANGED <<ROWS, COLS, MINES, last>>

\* the innermost neighbour loop makes its next call, on any neighbour it has
\* not visited yet
UnitVisit ==
    /\ pc = "revealing"
    /\ frames # <<>>
    /\ LET top == frames[Len(frames)]
       IN  \E n \in unit_todo(game_board, top[1], top[2]) :
               LET e == unit_enter(game_board, frames, n[1], n[2])
               IN  /\ game_board' = e.board
                   /\ frames' = e.frames
    /\ UNCHANGED <<ROWS, COLS, MINES, last, pc, call>>

\* the innermost neighbour loop is over: line 125, return False
UnitReturn ==
    /\ pc = "revealing"
    /\ frames # <<>>
    /\ LET top == frames[Len(frames)]
       IN  unit_todo(game_board, top[1], top[2]) = {}
    /\ frames' = SubSeq(frames, 1, Len(frames) - 1)
    /\ pc' = IF Len(frames) = 1 THEN "returned" ELSE "revealing"
    /\ UNCHANGED <<ROWS, COLS, MINES, game_board, last, call>>

UnitNext ==
    \/ UnitCalculate
    \/ \E row \in 0 .. MaxRows - 1, col \in 0 .. MaxCols - 1 : UnitReveal(row, col)
    \/ UnitVisit
    \/ UnitReturn

SpecUnit == UnitInit /\ [][UnitNext]_vars

\* ------------------------------------- reveal_cell run statement by statement
(***************************************************************************)
(* SpecRun runs one reveal_cell call, on a forced layout and forced cell   *)
(* states, the way the interpreter does: an activation that reaches the    *)
(* neighbour loop stays open with the position of its loop, the loop takes *)
(* the eight offsets in the order of the source, and a nested call that    *)
(* returns at line 108 or line 114 is over within the step that makes it.  *)
(* frames holds <<row, col, i>>: the activation of reveal_cell(row, col)   *)
(* is about to take the i-th offset of its loop.  Nothing else runs while  *)
(* the call is open, and the interpreter always takes the next step.       *)
(***************************************************************************)

RunInit ==
    /\ UnitInit
    /\ ROWS * COLS <= RunCells

\* one call reveal_cell(row, col) made with the activations fr open: lines
\* 105-114 for the cell, and a new activation at the start of its loop when
\* the call reaches line 117
run_call(b, fr, row, col) ==
    [board |-> reveal_mark(b, row, col),
     frames |-> IF reveal_cascades(b, row, col)
                THEN Append(fr, <<row, col, 1>>)
                ELSE fr]

\* the caller calls board.reveal_cell(row, col)
RunReveal(row, col) ==
    /\ pc = "counted"
    /\ <<row, col>> \in DOMAIN game_board.grid
    /\ call' = [board |-> game_board, row |-> row, col |-> col]
    /\ LET e == run_call(game_board, <<>>, row, col)
       IN  /\ game_board' = e.board
           /\ frames' = e.frames
           /\ pc' = IF e.frames = <<>> THEN "returned" ELSE "revealing"
    /\ UNCHANGED <<ROWS, COLS, MINES, last>>

\* lines 117-123: the innermost loop takes its next offset, and calls
\* reveal_cell on the neighbour when line 122 finds it on the board
RunLoop ==
    /\ pc = "revealing"
    /\ frames # <<>>
    /\ LET top == frames[Len(frames)]
           nr == top[1] + Offsets[top[3]][1]
           nc == top[2] + Offsets[top[3]][2]
           fr == [frames EXCEPT ![Len(frames)] = <<top[1], top[2], top[3] + 1>>]
       IN  /\ top[3] <= Len(Offsets)
           /\ IF InBounds(game_board, nr, nc)
              THEN LET e == run_call(game_board, fr, nr, nc)
                   IN  /\ game_board' = e.board
                       /\ frames' = e.frames
              ELSE /\ game_board' = game_board
                   /\ frames' = fr
    /\ UNCHANGED <<ROWS, COLS, MINES, last, pc, call>>

\* line 125: the innermost loop is over, the activation returns False
RunReturn ==
    /\ pc = "revealing"
    /\ frames # <<>>
    /\ frames[Len(frames)][3] > Len(Offsets)
    /\ frames' = SubSeq(frames, 1, Len(frames) - 1)
    /\ pc' = IF Len(frames) = 1 THEN "returned" ELSE "revealing"
    /\ UNCHANGED <<ROWS, COLS, MINES, game_board, last, call>>

RunNext ==
    \/ UnitCalculate
    \/ \E row \in 0 .. MaxRows - 1, col \in 0 .. MaxCols - 1 : RunReveal(row, col)
    \/ RunLoop
    \/ RunReturn

SpecRun ==
    RunInit /\ [][RunNext]_vars /\ WF_vars(RunLoop) /\ WF_vars(RunReturn)

\* ----------------------------------------------------------------- claims

\* the cells within Chebyshev distance 1 of p, p included
ChebyshevZone(b, p) ==
    { q \in DOMAIN b.grid :
        /\ q[1] - p[1] \in {-1, 0, 1}
        /\ q[2] - p[2] \in {-1, 0, 1} }

\* the mines among the cells that touch p, counted cell by cell
LiteralCount(b, p) ==
    Cardinality({ q \in ChebyshevZone(b, p) \ {p} : b.grid[q].is_mine })

\* every cell that is no mine is REVEALED
AllSafeRevealed(b) ==
    \A p \in DOMAIN b.grid : ~b.grid[p].is_mine => b.grid[p].state = REVEALED

\* a game is in progress: the first reveal is done and the game is not over
InProgress(b) == ~b.first_click /\ ~b.game_over

\* C1 First-move safety: whatever cell the first reveal of a game is on and
\* whatever positions random.sample picks, no cell within Chebyshev distance
\* 1 of the clicked cell is a mine after placement, and the first reveal of
\* a game never reports a loss.
C1_FirstMoveSafety ==
    /\ game_board.first_click =>
          \A p \in DOMAIN game_board.grid :
              \A picked \in MinePicks(game_board, p[1], p[2]) :
                  LET res == left_click(game_board, p[1], p[2], picked)
                  IN  /\ \A q \in ChebyshevZone(res.board, p) :
                            ~res.board.grid[q].is_mine
                      /\ res.outcome # "lost"
    /\ (last.op = "left_click" /\ last.first) => last.outcome # "lost"

\* C1 witness: the first reveal of a game has placed MaxMines mines
C1_Witness ==
    /\ last.op = "left_click" /\ last.first
    /\ MINES = MaxMines
    /\ Cardinality(MineCells(game_board)) = MaxMines
    /\ Cardinality(RevealedCells(game_board)) >= 4

\* C2 Mine-count invariant: either the first reveal is pending and no cell
\* is a mine, or it is done and exactly mine_count cells are mines.
C2_MineCount ==
    \/ /\ game_board.first_click
       /\ MineCells(game_board) = {}
    \/ /\ ~game_board.first_click
       /\ Cardinality(MineCells(game_board)) = game_board.mines

\* C2 witness: a game in progress with two mines on the board
C2_Witness ==
    /\ InProgress(game_board)
    /\ game_board.mines = 2
    /\ Cardinality(MineCells(game_board)) = 2

\* C3 Neighbour counts: once calculate_neighbor_mines has run, every cell
\* that is no mine holds the number of mines among the cells that touch it,
\* on every layout of every board.
C3_NeighborCounts ==
    pc # "placed" =>
        \A p \in DOMAIN game_board.grid :
            ~game_board.grid[p].is_mine =>
                game_board.grid[p].neighbor_mines = LiteralCount(game_board, p)

\* C3 witness: counts are computed on a board whose corner cell touches two
\* mines
C3_Witness ==
    /\ pc = "counted"
    /\ ~game_board.grid[<<0, 0>>].is_mine
    /\ game_board.grid[<<0, 0>>].neighbor_mines = 2

\* C4 Terminal absorption: once game_over is true, a left or right click on
\* any cell leaves the whole board as it is (cells, counter, game_over).
C4_TerminalAbsorption ==
    game_board.game_over =>
        \A p \in DOMAIN game_board.grid :
            /\ left_click(game_board, p[1], p[2], {}).board = game_board
            /\ right_click(game_board, p[1], p[2]).board = game_board

\* C4 witness: a click was made on a finished game with cells still hidden
C4_Witness ==
    /\ game_board.game_over
    /\ last.outcome = "returned"
    /\ HiddenCells(game_board) # {}
    /\ FlaggedCells(game_board) # {}

\* C5 Win detection: check_win returns true exactly when every cell that is
\* no mine is REVEALED; it sets game_over when it returns true and changes
\* nothing when it returns false; a left click reports a win or goes on
\* accordingly.
C5_WinDetection ==
    /\ LET cw == check_win(game_board)
       IN  /\ cw.ret = AllSafeRevealed(game_board)
           /\ cw.ret => cw.board = [game_board EXCEPT !.game_over = TRUE]
           /\ ~cw.ret => cw.board = game_board
    /\ last.outcome = "won" =>
           AllSafeRevealed(game_board) /\ game_board.game_over
    /\ last.outcome = "continued" =>
           ~AllSafeRevealed(game_board) /\ ~game_board.game_over

\* C5 witness: a game is won with one mine flagged and one mine hidden
C5_Witness ==
    /\ last.outcome = "won"
    /\ \E p, q \in MineCells(game_board) :
          /\ game_board.grid[p].state = FLAGGED
          /\ game_board.grid[q].state = HIDDEN

\* C6 Hitting a mine: a left click on a HIDDEN mine of a game in progress
\* reveals that one cell and no other, sets game_over and reports a loss.
C6_HitMine ==
    /\ InProgress(game_board) =>
          \A p \in DOMAIN game_board.grid :
              (game_board.grid[p].state = HIDDEN /\ game_board.grid[p].is_mine) =>
                  left_click(game_board, p[1], p[2], {}) =
                      [board |-> [game_board EXCEPT !.grid[p].state = REVEALED,
                                                   !.game_over = TRUE],
                       outcome |-> "lost"]
    /\ last.outcome = "lost" =>
          /\ game_board.game_over
          /\ Cardinality(MineCells(game_board) \cap RevealedCells(game_board)) = 1

\* C6 witness: a game is lost while other cells stay hidden
C6_Witness ==
    /\ last.outcome = "lost"
    /\ game_board.game_over
    /\ \E p \in MineCells(game_board) : game_board.grid[p].state = REVEALED
    /\ \E p \in HiddenCells(game_board) :
          ~game_board.grid[p].is_mine /\ game_board.grid[p].neighbor_mines = 0

\* C7 Flood-fill confluence: on every layout, with any cells FLAGGED or
\* REVEALED beforehand and from every starting cell, a reveal_cell call whose
\* neighbour loops take their neighbours in any order ends with the board
\* (so with the set of REVEALED cells) that the order of the source gives;
\* the result is a function of the layout, the prior states and the cell.
C7_FloodConfluence ==
    pc = "returned" =>
        /\ game_board = reveal_cell(call.board, call.row, call.col).board
        /\ RevealedCells(game_board) =
               RevealedCells(reveal_cell(call.board, call.row, call.col).board)

\* C7 witness: a cascade from a HIDDEN zero-count cell has finished on a board
\* with a mine and a flag, and it revealed at least four cells
C7_Witness ==
    /\ pc = "returned"
    /\ reveal_cascades(call.board, call.row, call.col)
    /\ MineCells(call.board) # {}
    /\ FlaggedCells(call.board) # {}
    /\ Cardinality(RevealedCells(game_board) \ RevealedCells(call.board)) >= 4

\* two different cells touch
Touching(p, q) ==
    p # q /\ q[1] - p[1] \in {-1, 0, 1} /\ q[2] - p[2] \in {-1, 0, 1}

RECURSIVE Component(_, _)

\* the cells of allowed that a chain of touching cells of allowed links to a
\* cell of reached
Component(reached, allowed) ==
    LET more == reached \cup
                    { q \in allowed : \E p \in reached : Touching(p, q) }
    IN  IF more = reached THEN reached ELSE Component(more, allowed)

\* the cells that are no mine and touch no mine
ZeroCells(b) ==
    { p \in DOMAIN b.grid : ~b.grid[p].is_mine /\ b.grid[p].neighbor_mines = 0 }

\* the boards on which a left click on p calls reveal_cell
RevealBoards(b, p) ==
    { left_click_place(b, picked) : picked \in MinePicks(b, p[1], p[2]) }

\* C8 as claimed: a reveal_cell call on a HIDDEN zero-count cell leaves every
\* cell of that cell's 8-connected component of zero-count cells REVEALED.
C8_WholeComponent ==
    \A p \in DOMAIN game_board.grid :
        \A b \in RevealBoards(game_board, p) :
            (p \in ZeroCells(b) /\ b.grid[p].state = HIDDEN) =>
                Component({p}, ZeroCells(b))
                    \subseteq RevealedCells(reveal_cell(b, p[1], p[2]).board)

\* C8 amended: a reveal_cell call on a HIDDEN zero-count cell leaves REVEALED
\* every cell of that cell's 8-connected component of zero-count cells that
\* are HIDDEN when the call is made (a FLAGGED cell stays FLAGGED, and the
\* cascade does not pass through it or through a cell REVEALED before).
C8_HiddenComponent ==
    \A p \in DOMAIN game_board.grid :
        \A b \in RevealBoards(game_board, p) :
            (p \in ZeroCells(b) /\ b.grid[p].state = HIDDEN) =>
                Component({p}, ZeroCells(b) \cap HiddenCells(b))
                    \subseteq RevealedCells(reveal_cell(b, p[1], p[2]).board)

\* C8 witness: a left click has revealed a HIDDEN zero-count cell next to a
\* zero-count cell that carries a flag, and the flag is still there
C8_Witness ==
    /\ last.op = "left_click" /\ last.target = HIDDEN /\ ~last.first
    /\ last.outcome = "continued"
    /\ \E p \in ZeroCells(game_board) \cap RevealedCells(game_board) :
          \E q \in ZeroCells(game_board) \cap FlaggedCells(game_board) :
              Touching(p, q)

\* C9 Flag round trip: in a game in progress, two right clicks in a row on a
\* HIDDEN cell flag it and take one off remaining_mines, then give back the
\* board as it was: the cell HIDDEN, remaining_mines and all other cells
\* unchanged.
C9_FlagRoundTrip ==
    InProgress(game_board) =>
        \A p \in HiddenCells(game_board) :
            LET once == right_click(game_board, p[1], p[2]).board
                twice == right_click(once, p[1], p[2]).board
            IN  /\ once.grid[p].state = FLAGGED
                /\ once.remaining_mines = game_board.remaining_mines - 1
                /\ twice = game_board

\* C9 witness: a right click has taken a flag off, and the board is back to
\* no flag and the full counter
C9_Witness ==
    /\ InProgress(game_board)
    /\ last.op = "right_click" /\ last.target = FLAGGED
    /\ FlaggedCells(game_board) = {}
    /\ game_board.remaining_mines = game_board.mines
    /\ game_board.mines > 0

\* C10 Reveal idempotence: a left click on a cell that is not HIDDEN changes
\* nothing on the board and reports no loss; and a second left click on the
\* cell of a first one changes nothing after the first.
C10_RevealIdempotence ==
    \A p \in DOMAIN game_board.grid :
        \A picked \in MinePicks(game_board, p[1], p[2]) :
            LET first == left_click(game_board, p[1], p[2], picked)
                second == left_click(first.board, p[1], p[2], {})
            IN  /\ game_board.grid[p].state # HIDDEN =>
                      /\ first.board = game_board
                      /\ first.outcome \in {"continued", "returned"}
                      /\ reveal_cell(game_board, p[1], p[2]) =
                             [board |-> game_board, ret |-> FALSE]
                /\ second.board = first.board
                /\ second.outcome \in {"continued", "returned"}

\* C10 witness: a left click on a FLAGGED cell of a game in progress went by
\* without effect
C10_Witness ==
    /\ last.op = "left_click" /\ last.target = FLAGGED
    /\ last.outcome = "continued"
    /\ FlaggedCells(game_board) # {}

\* the configurations new_board is to accept: positive rows and cols, and
\* mine_count in [1, rows * cols - 9]
ValidConfig(rows, cols, mines) ==
    rows > 0 /\ cols > 0 /\ mines >= 1 /\ mines <= rows * cols - 9

\* C11 as claimed: a board with mine_count outside [1, rows * cols - 9] or
\* with rows or cols below 1 is never created, so every board that exists
\* has a valid configuration, no left click fails in random.sample, and no
\* board has its first_click cleared while it holds no mine.
C11_RejectedAtConstruction ==
    /\ ValidConfig(game_board.rows, game_board.cols, game_board.mines)
    /\ last.outcome # "raised"
    /\ ~game_board.first_click => MineCells(game_board) # {}

\* C12 as claimed: a reveal_cell or toggle_flag call with row outside
\* [0, rows) or col outside [0, cols), negative numbers included, signals an
\* error and leaves every cell and every counter as it was.
C12_FailFast ==
    /\ \A row \in CallRows, col \in CallCols :
          ~InBounds(game_board, row, col) =>
              /\ reveal_cell_call(game_board, row, col).raised
              /\ reveal_cell_call(game_board, row, col).board = game_board
              /\ toggle_flag_call(game_board, row, col).raised
              /\ toggle_flag_call(game_board, row, col).board = game_board
    /\ last.op \in {"reveal_cell", "toggle_flag"} => last.outcome = "IndexError"

\* C13 No flags before the first reveal: while first_click is true a right
\* click on any cell changes nothing, so no cell is FLAGGED and
\* remaining_mines equals mines.
C13_NoFlagBeforeFirstReveal ==
    /\ game_board.first_click =>
          /\ FlaggedCells(game_board) = {}
          /\ game_board.remaining_mines = game_board.mines
          /\ \A p \in DOMAIN game_board.grid :
                right_click(game_board, p[1], p[2]) =
                    [board |-> game_board, outcome |-> "returned"]
    /\ (last.op = "right_click" /\ last.first) =>
          last.outcome = "returned" /\ game_board.first_click

\* C13 witness: a right click was made before the first reveal, on a board
\* that is to hold mines
C13_Witness ==
    /\ last.op = "right_click" /\ last.first
    /\ game_board.first_click
    /\ game_board.mines > 0
    /\ HiddenCells(game_board) = DOMAIN game_board.grid

\* C14 game_over is monotonic: no call of reveal_cell, toggle_flag or
\* check_win, made by a handler or directly, on a board whose game_over is
\* true gives a board whose game_over is false; game_over is false again only
\* on the board a new game constructs.
C14_GameOverMonotonic ==
    /\ [](game_board.game_over =>
             /\ check_win(game_board).board.game_over
             /\ \A p \in DOMAIN game_board.grid :
                   /\ reveal_cell(game_board, p[1], p[2]).board.game_over
                   /\ toggle_flag(game_board, p[1], p[2]).game_over)
    /\ [][game_board.game_over =>
             (game_board'.game_over \/ last'.op = "new_game")]_vars

\* C14 witness: toggle_flag was called directly on a board whose game is lost
\* and put a flag there (toggle_flag never writes game_over, so the game was
\* over when the call was made), and game_over is still true
C14_Witness ==
    /\ game_board.game_over
    /\ last.op = "toggle_flag" /\ last.outcome = "returned"
    /\ last.target = HIDDEN
    /\ FlaggedCells(game_board) # {}
    /\ MineCells(game_board) \cap RevealedCells(game_board) # {}

\* C15 No cascade from a numbered cell: reveal_cell on a HIDDEN cell that is
\* no mine and has neighbor_mines > 0 makes that one cell REVEALED, returns
\* False and leaves every other cell as it is; so does a left click on it.
C15_NumberedCell ==
    \A p \in HiddenCells(game_board) :
        (~game_board.grid[p].is_mine /\ game_board.grid[p].neighbor_mines > 0) =>
            /\ reveal_cell(game_board, p[1], p[2]) =
                   [board |-> [game_board EXCEPT !.grid[p].state = REVEALED],
                    ret |-> FALSE]
            /\ InProgress(game_board) =>
                   left_click(game_board, p[1], p[2], {}).board.grid =
                       [game_board.grid EXCEPT ![p].state = REVEALED]

\* C15 witness: a left click has revealed a numbered cell that touches no
\* revealed zero-count cell (so no cascade reached it: it was clicked), and a
\* cell next to it that is no mine is still HIDDEN
C15_Witness ==
    /\ last.op = "left_click" /\ last.target = HIDDEN /\ ~last.first
    /\ last.outcome = "continued"
    /\ \E p \in RevealedCells(game_board) :
          /\ ~game_board.grid[p].is_mine
          /\ game_board.grid[p].neighbor_mines > 0
          /\ \A q \in Neighbors(game_board, p[1], p[2]) :
                q \in ZeroCells(game_board) => game_board.grid[q].state # REVEALED
          /\ \E q \in Neighbors(game_board, p[1], p[2]) :
                ~game_board.grid[q].is_mine /\ game_board.grid[q].state = HIDDEN

\* C16 The mine layout is fixed after the first reveal: once a cell is
\* REVEALED no left or right click changes is_mine or neighbor_mines of any
\* cell, and first_click, once cleared, stays cleared until a new game (so
\* place_mines and calculate_neighbor_mines run at most once per game).
C16_LayoutFixed ==
    /\ [][(/\ last'.op # "new_game"
            /\ \E p \in DOMAIN game_board.grid :
                  game_board.grid[p].state = REVEALED) =>
             \A p \in DOMAIN game_board.grid :
                 /\ game_board'.grid[p].is_mine = game_board.grid[p].is_mine
                 /\ game_board'.grid[p].neighbor_mines =
                        game_board.grid[p].neighbor_mines]_vars
    /\ [][(~game_board.first_click /\ last'.op # "new_game") =>
             ~game_board'.first_click]_vars

\* C16 witness: after the first reveal and two flags, a later left click has
\* revealed a cell of a board with two mines
C16_Witness ==
    /\ last.op = "left_click" /\ last.target = HIDDEN /\ ~last.first
    /\ Cardinality(MineCells(game_board)) = 2
    /\ Cardinality(FlaggedCells(game_board)) = 2

C18_NewGameResets ==
    last.op = "new_game" =>
        /\ DOMAIN game_board.grid = Positions(ROWS, COLS)
        /\ \A p \in DOMAIN game_board.grid :
              /\ game_board.grid[p].state = HIDDEN
              /\ ~game_board.grid[p].is_mine
              /\ game_board.grid[p].neighbor_mines = 0
        /\ ~game_board.game_over
        /\ game_board.first_click
        /\ game_board.remaining_mines = MINES
        /\ game_board.mines = MINES

\* C18 witness: a new game was started on top of a lost game with two mines
C18_Witness ==
    /\ last.op = "new_game"
    /\ last.outcome = "discarded_lost"
    /\ MINES = 2

\* C19 Counter/flag consistency: in every reachable state remaining_mines
\* equals mines minus the number of FLAGGED cells, and a left click (the
\* reveal and its cascade) changes neither remaining_mines nor the set of
\* FLAGGED cells.
C19_CounterFlagConsistency ==
    /\ [](game_board.remaining_mines =
             game_board.mines - Cardinality(FlaggedCells(game_board)))
    /\ [][last'.op = "left_click" =>
             /\ game_board'.remaining_mines = game_board.remaining_mines
             /\ FlaggedCells(game_board') = FlaggedCells(game_board)]_vars

\* C19 witness: a left click has revealed a cell of a board with one mine and
\* two flags, where remaining_mines stands at -1
C19_Witness ==
    /\ last.op = "left_click" /\ last.target = HIDDEN /\ ~last.first
    /\ last.outcome = "continued"
    /\ game_board.mines = 1
    /\ Cardinality(FlaggedCells(game_board)) = 2
    /\ game_board.remaining_mines = -1

\* C20 Revealed mines imply loss: in every reachable state at most one mine is
\* REVEALED, and game_over is true when one is; a left click that does not
\* report a loss (a reveal, with its cascade, of a cell that is no mine)
\* reveals no mine.
C20_RevealedMineImpliesLoss ==
    /\ [](Cardinality(MineCells(game_board) \cap RevealedCells(game_board)) <= 1)
    /\ [](MineCells(game_board) \cap RevealedCells(game_board) # {} =>
             game_board.game_over)
    /\ [][(last'.op = "left_click" /\ last'.outcome # "lost") =>
             MineCells(game_board') \cap RevealedCells(game_board') =
                 MineCells(game_board) \cap RevealedCells(game_board)]_vars

\* C20 witness: a game with two mines is lost after a cascade: one mine is
\* REVEALED, the other is not, and at least four other cells are REVEALED
C20_Witness ==
    /\ last.outcome = "lost"
    /\ Cardinality(MineCells(game_board)) = 2
    /\ Cardinality(MineCells(game_board) \cap RevealedCells(game_board)) = 1
    /\ Cardinality(RevealedCells(game_board)) >= 5

=============================================================================
